---- MODULE Spec2Model ----
(***************************************************************************)
(* A state-machine model of the choir backend: the Hubtel payment          *)
(* transaction machine (initiate, webhook, status poll, verify, admin      *)
(* actions), the organization-scoped viewsets and the automatic            *)
(* subscription assignment signals.  Amounts are whole currency units and  *)
(* time is counted in whole minutes.                                       *)
(***************************************************************************)
EXTENDS Integers, Sequences, FiniteSets, TLC

VARIABLES users, subs, usubs, txns, now, req, resp, otps, generating

vars == <<users, subs, usubs, txns, now, req, resp, otps, generating>>

----------------------------------------------------------------------------
(* Universe *)

Orgs == {"org1", "org2"}

NoOrg == "none"

Users == {"u1", "u2", "u3", "u4"}

Subs == {"s1", "s2"}

Roles == {"super_admin", "admin", "finance_admin", "attendance_officer", "treasurer", "part_leader", "member"}

AssigneesCategorizations == {"EXECUTIVES", "MEMBERS", "BOTH"}

STATUS_CHOICES == {"fully_paid", "partially_paid", "overdue", "not_paid", "refunded"}

TRANSACTION_STATUS_CHOICES == {"initiated", "pending", "success", "failed", "expired", "cancelled", "refunded"}

(* Bounds of the model *)
MaxTxns == 2

MaxCallbackTxns == 1

MaxTime == 2

MaxPaid == 4

(* The amount of the subscriptions of the payment machine *)
SubscriptionAmount == 2

(* Program constants *)
PAYMENT_EXPIRY_MINUTES == 5

PendingWindowMinutes == 1

(* Client references are unique per transaction: the k-th transaction gets RefNames[k]. *)
RefNames == <<"ref1", "ref2", "ref3", "ref4">>

IPs == {"10.0.0.1", "6.6.6.6"}

WHITELISTED_IPS == {"10.0.0.1"}

----------------------------------------------------------------------------
(* User model helpers *)

(* a test that takes every organization admin for a super admin *)
is_super_admin_or_admin(u) == users[u].role \in {"super_admin", "admin"} \/ users[u].is_superuser

is_super_admin(u) == users[u].role = "super_admin" \/ users[u].is_superuser

is_finance_admin(u) == users[u].role = "finance_admin" \/ users[u].is_superuser

is_executive(u) == users[u].role \in {"super_admin", "finance_admin", "attendance_officer", "treasurer", "admin", "part_leader"}

----------------------------------------------------------------------------
(* UserSubscription *)

get_outstanding_amount(us) ==
    LET outstanding == subs[us[2]].amount - usubs[us].amount_paid
    IN  IF outstanding > 0 THEN outstanding ELSE 0

PendingPayments(us) ==
    {k \in DOMAIN txns : /\ txns[k].user_subscription = us
                         /\ txns[k].status \in {"initiated", "pending"}
                         /\ txns[k].created_at >= now - PendingWindowMinutes}

can_make_payment(us) ==
    IF usubs[us].status = "fully_paid"
    THEN [ok |-> FALSE, message |-> "Subscription is already fully paid"]
    ELSE IF usubs[us].status = "refunded"
    THEN [ok |-> FALSE, message |-> "Subscription has been refunded"]
    ELSE IF PendingPayments(us) # {}
    THEN [ok |-> FALSE, message |-> "A payment is already in progress. Please wait 5 minutes before trying again."]
    ELSE [ok |-> TRUE, message |-> "Can make payment"]

process_payment(usub, subscription_amount, amount) ==
    LET paid == usub.amount_paid + amount
    IN  [usub EXCEPT !.amount_paid = paid,
                     !.status = IF paid >= subscription_amount THEN "fully_paid"
                                ELSE IF paid > 0 THEN "partially_paid"
                                ELSE usub.status]

----------------------------------------------------------------------------
(* PaymentTransaction *)

is_expired(t) == now > t.expires_at

(* callback_data is an option: {} is None, {cb} is the stored payload *)
mark_as_success(k, cbopt) ==
    LET t  == txns[k]
        us == t.user_subscription
    IN  [txns  |-> [txns EXCEPT ![k] = [t EXCEPT !.status = "success",
                                                 !.callback_data = IF cbopt # {} THEN cbopt ELSE t.callback_data]],
         usubs |-> [usubs EXCEPT ![us] = process_payment(usubs[us], subs[us[2]].amount, t.amount)]]

mark_as_failed(k, error_message, cbopt) ==
    [txns  |-> [txns EXCEPT ![k] = [txns[k] EXCEPT !.status = "failed",
                                                   !.error_message = error_message,
                                                   !.callback_data = IF cbopt # {} THEN cbopt ELSE txns[k].callback_data]],
     usubs |-> usubs]

----------------------------------------------------------------------------
(* Callback payloads *)

DictGet(d, key, default) == IF key \in DOMAIN d THEN d[key] ELSE default

ClientReferenceInputs == {RefNames[k] : k \in 1..MaxCallbackTxns} \cup {"", "nosuchref"}

CallbackData ==
    [ClientReference : ClientReferenceInputs, Status : {"Success", "Failed"}, Amount : {"1.00"}]
    \cup [ClientReference : ClientReferenceInputs, Status : {"Success", "Failed"}, Amount : {"1.00"}, Description : {"Declined"}]
    \cup [Status : {"Failed"}, Amount : {"1.00"}]

(* the payloads delivered: the successful one and those where one of the three checked fields says otherwise *)
Payloads ==
    {p \in [ResponseCode : {"0000", "2001"}, Status : {"Success", "Failed"}, Data : CallbackData] :
        (IF p.ResponseCode = "0000" THEN 0 ELSE 1) + (IF p.Status = "Success" THEN 0 ELSE 1)
            + (IF p.Data.Status = "Success" THEN 0 ELSE 1) <= 1}

(* json.dumps(sort_keys=True): the key/value pairs, whatever the order the keys came in; *)
(* md5 of it is taken to be collision-free                                               *)
CallbackHash(cb) ==
    [top  |-> {<<key, cb[key]>> : key \in (DOMAIN cb) \ {"Data"}},
     data |-> {<<key, cb.Data[key]>> : key \in DOMAIN cb.Data}]

PaymentWebhookSerializer_is_valid(p) ==
    {"ClientReference", "Status", "Amount"} \subseteq DOMAIN p.Data

----------------------------------------------------------------------------
(* HubtelPaymentService *)

validate_callback_ip(ip) ==
    IF WHITELISTED_IPS = {} THEN TRUE ELSE ip \in WHITELISTED_IPS

(* a duplicate check that only looks at successful transactions *)
is_duplicate_callback_success_only(t, cb) ==
    /\ t.status = "success"
    /\ \E existing \in t.callback_data : CallbackHash(cb) = CallbackHash(existing)

is_duplicate_callback(t, cb) ==
    /\ t.status \in {"success", "failed", "refunded"}
    /\ \E existing \in t.callback_data : CallbackHash(cb) = CallbackHash(existing)

TxnsByReference(ref) == {k \in DOMAIN txns : txns[k].client_reference = ref}

(* a success test that forgets Data.Status *)
IsSuccessCallback_ignoring_data_status(cb) ==
    cb.ResponseCode = "0000" /\ cb.Status = "Success"

IsSuccessCallback(cb) ==
    cb.ResponseCode = "0000" /\ cb.Status = "Success" /\ DictGet(cb.Data, "Status", "") = "Success"

(* The IP check of handle_callback is commented out in the source: ip is not read. *)
handle_callback(cb, ip) ==
    LET client_reference == DictGet(cb.Data, "ClientReference", "")
        found == TxnsByReference(client_reference)
    IN  IF client_reference = ""
        THEN [success |-> FALSE, message |-> "Missing ClientReference in callback", txns |-> txns, usubs |-> usubs]
        ELSE IF found = {}
        THEN [success |-> FALSE, message |-> "Transaction not found: " \o client_reference, txns |-> txns, usubs |-> usubs]
        ELSE LET k == CHOOSE k \in found : TRUE
             IN  IF is_duplicate_callback(txns[k], cb)
                 THEN [success |-> TRUE, message |-> "Duplicate callback (already processed)", txns |-> txns, usubs |-> usubs]
                 ELSE IF IsSuccessCallback(cb)
                 THEN LET r == mark_as_success(k, {cb})
                      IN  [success |-> TRUE, message |-> "Payment processed successfully", txns |-> r.txns, usubs |-> r.usubs]
                 ELSE LET error_message == DictGet(cb.Data, "Description", "Payment failed")
                          r == mark_as_failed(k, error_message, {cb})
                      IN  [success |-> FALSE, message |-> error_message, txns |-> r.txns, usubs |-> r.usubs]

NewTransaction(us, amount) ==
    [user_subscription |-> us,
     user              |-> us[1],
     organization      |-> subs[us[2]].organization,
     client_reference  |-> RefNames[Len(txns) + 1],
     amount            |-> amount,
     status            |-> "initiated",
     created_at        |-> now,
     expires_at        |-> now + PAYMENT_EXPIRY_MINUTES,
     callback_data     |-> {},
     error_message     |-> ""]

HubtelInitiateOutcomes == {"-", "ok", "rejected", "network_error"}

(* an initiation that forgets to compare the amount with the outstanding amount *)
initiate_payment_no_upper_check(us, amountopt, hubtel) ==
    LET can_pay     == can_make_payment(us)
        amount      == IF amountopt = <<>> THEN get_outstanding_amount(us) ELSE amountopt[1]
        k           == Len(txns) + 1
        created     == Append(txns, NewTransaction(us, amount))
    IN  IF ~can_pay.ok
        THEN [raised |-> "ValueError", message |-> can_pay.message, txns |-> txns]
        ELSE IF amount <= 0
        THEN [raised |-> "ValueError", message |-> "Payment amount must be greater than zero", txns |-> txns]
        ELSE IF hubtel = "ok"
        THEN [raised |-> "", message |-> "", txns |-> created]
        ELSE IF hubtel = "rejected"
        THEN [raised |-> "ValueError", message |-> "Hubtel payment initiation failed: Unknown error from Hubtel",
              txns |-> [created EXCEPT ![k].status = "failed", ![k].error_message = "Unknown error from Hubtel"]]
        ELSE [raised |-> "RequestException", message |-> "connection error",
              txns |-> [created EXCEPT ![k].status = "failed", ![k].error_message = "connection error"]]

(* amountopt is <<>> for None and <<a>> for the amount a; hubtel is the gateway's answer *)
initiate_payment(us, amountopt, hubtel) ==
    LET can_pay     == can_make_payment(us)
        outstanding == get_outstanding_amount(us)
        amount      == IF amountopt = <<>> THEN outstanding ELSE amountopt[1]
        k           == Len(txns) + 1
        created     == Append(txns, NewTransaction(us, amount))
    IN  IF ~can_pay.ok
        THEN [raised |-> "ValueError", message |-> can_pay.message, txns |-> txns]
        ELSE IF amount <= 0
        THEN [raised |-> "ValueError", message |-> "Payment amount must be greater than zero", txns |-> txns]
        ELSE IF amount > outstanding
        THEN [raised |-> "ValueError", message |-> "Payment amount cannot exceed outstanding amount", txns |-> txns]
        ELSE IF hubtel = "ok"
        THEN [raised |-> "", message |-> "", txns |-> created]
        ELSE IF hubtel = "rejected"
        THEN [raised |-> "ValueError", message |-> "Hubtel payment initiation failed: Unknown error from Hubtel",
              txns |-> [created EXCEPT ![k].status = "failed", ![k].error_message = "Unknown error from Hubtel"]]
        ELSE [raised |-> "RequestException", message |-> "connection error",
              txns |-> [created EXCEPT ![k].status = "failed", ![k].error_message = "connection error"]]

HubtelStatusOutcomes == {"-", "Paid", "Unpaid", "Refunded", "Other", "exception"}

StatusCheckCallback == [Data |-> [status |-> "Paid"], ResponseCode |-> "0000", Status |-> "Success"]

check_payment_status(k, hubtel) ==
    IF hubtel = "exception"
    THEN [raised |-> TRUE, txns |-> txns, usubs |-> usubs]
    ELSE IF hubtel = "Paid" /\ txns[k].status # "success"
    THEN LET r == mark_as_success(k, {StatusCheckCallback})
         IN  [raised |-> FALSE, txns |-> r.txns, usubs |-> r.usubs]
    ELSE IF hubtel = "Unpaid"
    THEN [raised |-> FALSE, txns |-> [txns EXCEPT ![k].status = "pending"], usubs |-> usubs]
    ELSE IF hubtel = "Refunded"
    THEN [raised |-> FALSE, txns |-> [txns EXCEPT ![k].status = "refunded"], usubs |-> usubs]
    ELSE [raised |-> FALSE, txns |-> txns, usubs |-> usubs]

----------------------------------------------------------------------------
(* PaymentViewSet *)

get_queryset(actor) ==
    IF is_executive(actor)
    THEN {k \in DOMAIN txns : txns[k].organization = users[actor].organization}
    ELSE {k \in DOMAIN txns : txns[k].user = actor}

(* The first error PaymentInitiateSerializer reports, "" when the data is valid *)
PaymentInitiateSerializer_errors(actor, us, amountopt) ==
    IF us \notin DOMAIN usubs THEN "User subscription not found"
    ELSE IF us[1] # actor THEN "You do not have permission to pay for this subscription"
    ELSE IF amountopt # <<>> /\ amountopt[1] <= 0 THEN "Amount must be greater than zero"
    ELSE IF ~can_make_payment(us).ok THEN can_make_payment(us).message
    ELSE IF amountopt = <<>> /\ get_outstanding_amount(us) <= 0 THEN "No outstanding amount to pay"
    ELSE IF amountopt # <<>> /\ amountopt[1] > get_outstanding_amount(us) THEN "Amount exceeds outstanding amount"
    ELSE ""

AmountInputs == {<<>>} \cup {<<a>> : a \in 0..(SubscriptionAmount + 1)}

WithinBounds(newtxns, newusubs) ==
    /\ Len(newtxns) <= MaxTxns
    /\ \A us \in DOMAIN newusubs : newusubs[us].amount_paid <= MaxPaid

Authenticated == {u \in Users : users[u].exists /\ users[u].is_active}

NoResult == {}

(* an existing user subscription id and one that does not exist *)
UserSubscriptionInputs == DOMAIN usubs \cup {<<"u3", "s2">>}

(* the gateway's answer is an input of a request only when the request reaches the gateway *)
CallsHubtel(reached, hubtel) == IF reached THEN hubtel # "-" ELSE hubtel = "-"

(* HubtelPaymentService.initiate_payment called on its own *)
InitiatePayment(us, amountopt, hubtel) ==
    /\ us \in DOMAIN usubs
    /\ CallsHubtel(initiate_payment(us, amountopt, "ok").raised = "", hubtel)
    /\ \E r \in {initiate_payment(us, amountopt, hubtel)} :
           /\ WithinBounds(r.txns, usubs)
           /\ txns' = r.txns
           /\ req' = [op |-> "initiate_payment", actor |-> "-"]
           /\ resp' = [code |-> r.raised, message |-> r.message, returned |-> DOMAIN r.txns \ DOMAIN txns]
    /\ UNCHANGED <<users, subs, usubs, now, otps, generating>>

(* POST payments/initiate *)
Initiate(actor, us, amountopt, hubtel) ==
    /\ actor \in Authenticated
    /\ CallsHubtel(PaymentInitiateSerializer_errors(actor, us, amountopt) = "", hubtel)
    /\ LET error == PaymentInitiateSerializer_errors(actor, us, amountopt)
       IN  IF error # ""
           THEN /\ txns' = txns
                /\ req' = [op |-> "initiate", actor |-> actor]
                /\ resp' = [code |-> "400", message |-> error, returned |-> NoResult]
           ELSE \E r \in {initiate_payment(us, amountopt, hubtel)} :
                    /\ WithinBounds(r.txns, usubs)
                    /\ txns' = r.txns
                    /\ req' = [op |-> "initiate", actor |-> actor]
                    /\ resp' = [code |-> IF r.raised = "" THEN "201" ELSE IF r.raised = "ValueError" THEN "400" ELSE "500",
                                message |-> r.message, returned |-> DOMAIN r.txns \ DOMAIN txns]
    /\ UNCHANGED <<users, subs, usubs, now, otps, generating>>

(* POST payments/webhook *)
Webhook(ip, payload) ==
    /\ IF ~PaymentWebhookSerializer_is_valid(payload)
       THEN /\ UNCHANGED <<txns, usubs>>
            /\ resp' = [code |-> "400", message |-> "Invalid webhook data", returned |-> NoResult]
       ELSE \E r \in {handle_callback(payload, ip)} :
                /\ WithinBounds(r.txns, r.usubs)
                /\ txns' = r.txns
                /\ usubs' = r.usubs
                /\ resp' = [code |-> IF r.success THEN "200 success" ELSE "200 failed", message |-> r.message, returned |-> NoResult]
    /\ req' = [op |-> "webhook", actor |-> ip]
    /\ UNCHANGED <<users, subs, now, otps, generating>>

(* GET payments/{id}/status *)
Status(actor, k, hubtel) ==
    /\ actor \in Authenticated
    /\ CallsHubtel(k \in get_queryset(actor) /\ txns[k].status \in {"initiated", "pending"} /\ ~is_expired(txns[k]), hubtel)
    /\ IF k \notin get_queryset(actor)
       THEN /\ UNCHANGED <<txns, usubs>>
            /\ req' = [op |-> "status", actor |-> actor]
            /\ resp' = [code |-> "404", message |-> "Payment transaction not found", returned |-> NoResult]
       ELSE IF txns[k].status \in {"initiated", "pending"} /\ ~is_expired(txns[k])
       THEN \E r \in {check_payment_status(k, hubtel)} :
                /\ WithinBounds(r.txns, r.usubs)
                /\ txns' = r.txns
                /\ usubs' = r.usubs
                /\ req' = [op |-> "status", actor |-> actor]
                /\ resp' = [code |-> "200", message |-> r.txns[k].status, returned |-> {k}]
       ELSE /\ UNCHANGED <<txns, usubs>>
            /\ req' = [op |-> "status", actor |-> actor]
            /\ resp' = [code |-> "200", message |-> txns[k].status, returned |-> {k}]
    /\ UNCHANGED <<users, subs, now, otps, generating>>

(* GET payments *)
List(actor) ==
    /\ actor \in Authenticated
    /\ req' = [op |-> "list", actor |-> actor]
    /\ resp' = [code |-> "200", message |-> "", returned |-> get_queryset(actor)]
    /\ UNCHANGED <<users, subs, usubs, txns, now, otps, generating>>

(* GET payments/{id} *)
Retrieve(actor, k) ==
    /\ actor \in Authenticated
    /\ req' = [op |-> "retrieve", actor |-> actor]
    /\ resp' = IF k \in get_queryset(actor)
               THEN [code |-> "200", message |-> "", returned |-> {k}]
               ELSE [code |-> "404", message |-> "Payment transaction not found", returned |-> NoResult]
    /\ UNCHANGED <<users, subs, usubs, txns, now, otps, generating>>

(* POST payments/{id}/verify *)
Verify(actor, k, hubtel) ==
    /\ actor \in Authenticated
    /\ CallsHubtel((is_finance_admin(actor) \/ is_super_admin(actor)) /\ k \in DOMAIN txns, hubtel)
    /\ IF ~(is_finance_admin(actor) \/ is_super_admin(actor))
       THEN /\ UNCHANGED <<txns, usubs>>
            /\ req' = [op |-> "verify", actor |-> actor]
            /\ resp' = [code |-> "403", message |-> "Permission denied. Finance admin access required.", returned |-> NoResult]
       ELSE IF k \notin DOMAIN txns
       THEN /\ UNCHANGED <<txns, usubs>>
            /\ req' = [op |-> "verify", actor |-> actor]
            /\ resp' = [code |-> "404", message |-> "Payment transaction not found", returned |-> NoResult]
       ELSE \E r \in {check_payment_status(k, hubtel)} :
                /\ WithinBounds(r.txns, r.usubs)
                /\ txns' = r.txns
                /\ usubs' = r.usubs
                /\ req' = [op |-> "verify", actor |-> actor]
                /\ resp' = IF r.raised
                           THEN [code |-> "500", message |-> "Failed to verify payment", returned |-> NoResult]
                           ELSE [code |-> "200", message |-> "Payment status verified with Hubtel", returned |-> {k}]
    /\ UNCHANGED <<users, subs, now, otps, generating>>

(* Django admin: the PaymentTransactionAdmin actions on one selected transaction *)
AdminMarkAsSuccess(k) ==
    /\ k \in DOMAIN txns
    /\ \E r \in {IF txns[k].status \in {"pending", "initiated"}
                 THEN mark_as_success(k, {})
                 ELSE [txns |-> txns, usubs |-> usubs]} :
           /\ WithinBounds(r.txns, r.usubs)
           /\ txns' = r.txns
           /\ usubs' = r.usubs
    /\ req' = [op |-> "admin_mark_as_success", actor |-> "-"]
    /\ resp' = [code |-> "200", message |-> "", returned |-> NoResult]
    /\ UNCHANGED <<users, subs, now, otps, generating>>

AdminMarkAsFailed(k) ==
    /\ k \in DOMAIN txns
    /\ \E r \in {IF txns[k].status \in {"pending", "initiated"}
                 THEN mark_as_failed(k, "Manually marked as failed by admin", {})
                 ELSE [txns |-> txns, usubs |-> usubs]} :
           /\ txns' = r.txns
           /\ usubs' = r.usubs
    /\ req' = [op |-> "admin_mark_as_failed", actor |-> "-"]
    /\ resp' = [code |-> "200", message |-> "", returned |-> NoResult]
    /\ UNCHANGED <<users, subs, now, otps, generating>>

(* Django admin: the UserSubscriptionAdmin change form saving an edited status *)
AdminEditUserSubscription(us, status) ==
    /\ us \in DOMAIN usubs
    /\ usubs' = [usubs EXCEPT ![us].status = status]
    /\ req' = [op |-> "admin_edit_user_subscription", actor |-> "-"]
    /\ resp' = [code |-> "200", message |-> "", returned |-> NoResult]
    /\ UNCHANGED <<users, subs, txns, now, otps, generating>>

(* one minute passes *)
Tick ==
    /\ now < MaxTime
    /\ now' = now + 1
    /\ req' = [op |-> "tick", actor |-> "-"]
    /\ resp' = [code |-> "", message |-> "", returned |-> NoResult]
    /\ UNCHANGED <<users, subs, usubs, txns, otps, generating>>

----------------------------------------------------------------------------
(* The payment machine over a fixed population *)

NewUser(org, role) ==
    [exists |-> TRUE, organization |-> org, role |-> role, is_active |-> TRUE,
     is_approved |-> TRUE, is_superuser |-> FALSE, email_verified |-> FALSE]

NewSubscription(org, amount, category, active) ==
    [exists |-> TRUE, organization |-> org, amount |-> amount,
     assignees_category |-> category, is_active |-> active]

NewUserSubscription == [status |-> "not_paid", amount_paid |-> 0]

(* a row that is not in the table *)
NoUser ==
    [exists |-> FALSE, organization |-> NoOrg, role |-> "member", is_active |-> FALSE,
     is_approved |-> FALSE, is_superuser |-> FALSE, email_verified |-> FALSE]

NoSubscription ==
    [exists |-> FALSE, organization |-> NoOrg, amount |-> 0,
     assignees_category |-> "BOTH", is_active |-> FALSE]

InitPay ==
    /\ users = [u \in Users |-> IF u = "u1" THEN NewUser("org1", "member")
                                ELSE IF u = "u2" THEN NewUser("org2", "finance_admin")
                                ELSE IF u = "u3" THEN NewUser("org1", "treasurer")
                                ELSE NoUser]
    /\ subs = [s \in Subs |-> IF s = "s1" THEN NewSubscription("org1", SubscriptionAmount, "BOTH", TRUE)
                              ELSE IF s = "s2" THEN NewSubscription("org2", SubscriptionAmount, "BOTH", TRUE)
                              ELSE NoSubscription]
    /\ usubs = (<<"u1", "s1">> :> NewUserSubscription)
    /\ txns = <<>>
    /\ now = 0
    /\ req = [op |-> "init", actor |-> "-"]
    /\ resp = [code |-> "", message |-> "", returned |-> NoResult]
    /\ otps = <<>>
    /\ generating = {}

(* The webhook-centred machine: every callback payload, one transaction at a time, the clock standing still *)
NextPay ==
    \/ \E us \in UserSubscriptionInputs, a \in AmountInputs, h \in HubtelInitiateOutcomes :
           Initiate("u1", us, a, h) /\ Len(txns') <= MaxCallbackTxns
    \/ \E ip \in IPs, p \in Payloads : Webhook(ip, p)
    \/ \E actor \in Users, k \in 1..MaxCallbackTxns, h \in HubtelStatusOutcomes : Status(actor, k, h)
    \/ \E actor \in Users, k \in 1..MaxCallbackTxns, h \in HubtelStatusOutcomes : Verify(actor, k, h)
    \/ \E k \in 1..MaxCallbackTxns : AdminMarkAsSuccess(k)
    \/ \E k \in 1..MaxCallbackTxns : AdminMarkAsFailed(k)

SpecPay == InitPay /\ [][NextPay]_vars

(* The statuses the admin change form is made to save *)
StatusEdits == {"refunded", "overdue"}

(* The initiation-centred machine: several transactions over time, settled by status polls and admin actions *)
NextInitiate ==
    \/ \E us \in DOMAIN usubs, a \in AmountInputs, h \in HubtelInitiateOutcomes : InitiatePayment(us, a, h)
    \/ \E actor \in {"u1", "u3"}, us \in UserSubscriptionInputs, a \in AmountInputs, h \in HubtelInitiateOutcomes : Initiate(actor, us, a, h)
    \/ \E k \in 1..MaxTxns, h \in HubtelStatusOutcomes : Status("u1", k, h)
    \/ \E k \in 1..MaxTxns : AdminMarkAsSuccess(k)
    \/ \E us \in DOMAIN usubs, st \in StatusEdits : AdminEditUserSubscription(us, st)
    \/ Tick

SpecInitiate == InitPay /\ [][NextInitiate]_vars

(* The authenticated payment endpoints over transactions of two organizations *)
InitPayViews ==
    /\ InitPay!1
    /\ InitPay!2
    /\ usubs = (<<"u1", "s1">> :> NewUserSubscription) @@ (<<"u2", "s2">> :> NewUserSubscription)
    /\ txns = <<>>
    /\ now = 0
    /\ req = [op |-> "init", actor |-> "-"]
    /\ resp = [code |-> "", message |-> "", returned |-> NoResult]
    /\ otps = <<>>
    /\ generating = {}

NextPayViews ==
    \/ \E actor \in Users, us \in UserSubscriptionInputs, h \in HubtelInitiateOutcomes : Initiate(actor, us, <<>>, h)
    \/ \E actor \in Users : List(actor)
    \/ \E actor \in Users, k \in 1..MaxTxns : Retrieve(actor, k)
    \/ \E actor \in Users, k \in 1..MaxTxns, h \in HubtelStatusOutcomes : Status(actor, k, h)
    \/ \E actor \in Users, k \in 1..MaxTxns, h \in HubtelStatusOutcomes : Verify(actor, k, h)

SpecPayViews == InitPayViews /\ [][NextPayViews]_vars

----------------------------------------------------------------------------
(* Claims about the payment machine *)

FinalStatuses == {"success", "failed", "refunded"}

IsRedelivery(p) ==
    /\ PaymentWebhookSerializer_is_valid(p)
    /\ \E k \in DOMAIN txns : /\ txns[k].client_reference = p.Data.ClientReference
                              /\ txns[k].status \in FinalStatuses
                              /\ txns[k].callback_data = {p}

(* C1: a webhook delivering again the payload stored on a transaction in status    *)
(* success, failed or refunded is answered success with 'Duplicate callback        *)
(* (already processed)' and leaves every transaction and user subscription as it   *)
(* was, at every such delivery.                                                    *)
C1_DuplicateCallbackIsNoOp ==
    [][\A p \in Payloads :
          (req'.op = "webhook" /\ IsRedelivery(p) /\ Webhook(req'.actor, p)) =>
              /\ resp'.code = "200 success"
              /\ resp'.message = "Duplicate callback (already processed)"
              /\ UNCHANGED <<txns, usubs>>]_vars

C1_Witness ==
    /\ req.op = "webhook"
    /\ resp.message = "Duplicate callback (already processed)"
    /\ \E k \in DOMAIN txns : /\ txns[k].status = "failed"
                              /\ txns[k].callback_data # {}

ExpectedErrorMessage(p) ==
    IF "Description" \in DOMAIN p.Data THEN p.Data.Description ELSE "Payment failed"

(* C2: a callback that is not a duplicate and names a transaction makes it success  *)
(* and adds its amount to amount_paid when ResponseCode is '0000' and Status and    *)
(* Data.Status are 'Success', and otherwise makes it failed with Data.Description   *)
(* (default 'Payment failed') as error_message, amount_paid unchanged; a callback   *)
(* with a missing or unknown ClientReference changes nothing.                       *)
C2_CallbackOutcome ==
    [][\A p \in Payloads :
          (req'.op = "webhook" /\ Webhook(req'.actor, p)) =>
              LET ref == IF "ClientReference" \in DOMAIN p.Data THEN p.Data.ClientReference ELSE ""
                  ks  == {k \in DOMAIN txns : txns[k].client_reference = ref}
              IN  IF ref = "" \/ ks = {}
                  THEN UNCHANGED <<txns, usubs>>
                  ELSE \A k \in ks :
                          LET us == txns[k].user_subscription
                          IN  IF IsRedelivery(p) THEN TRUE
                              ELSE IF p.ResponseCode = "0000" /\ p.Status = "Success" /\ p.Data.Status = "Success"
                              THEN /\ txns'[k].status = "success"
                                   /\ usubs'[us].amount_paid = usubs[us].amount_paid + txns[k].amount
                              ELSE /\ txns'[k].status = "failed"
                                   /\ txns'[k].error_message = ExpectedErrorMessage(p)
                                   /\ usubs'[us].amount_paid = usubs[us].amount_paid]_vars

C2_Witness ==
    /\ req.op = "webhook"
    /\ resp.message = "Payment processed successfully"
    /\ \E k \in DOMAIN txns : /\ txns[k].status = "success"
                              /\ usubs[txns[k].user_subscription].amount_paid = txns[k].amount

InProgress(us, window) ==
    \E k \in DOMAIN txns : /\ txns[k].user_subscription = us
                           /\ txns[k].status \in {"initiated", "pending"}
                           /\ now - txns[k].created_at <= window

CreatesOne(us, amount, hubtel) ==
    /\ Len(txns') = Len(txns) + 1
    /\ SubSeq(txns', 1, Len(txns)) = txns
    /\ LET t == txns'[Len(txns')]
       IN  /\ t.user_subscription = us
           /\ t.amount = amount
           /\ t.status = IF hubtel = "ok" THEN "initiated" ELSE "failed"

(* C3 as stated: initiate_payment raises ValueError and creates nothing when the    *)
(* amount (the outstanding amount when none is given) is not above zero, exceeds    *)
(* the outstanding amount, or the user subscription is fully_paid or refunded, and  *)
(* otherwise creates exactly one transaction for that amount.                       *)
C3_AsStated ==
    [][\A us \in DOMAIN usubs, a \in AmountInputs, h \in HubtelInitiateOutcomes :
          InitiatePayment(us, a, h) =>
              LET outstanding == IF subs[us[2]].amount - usubs[us].amount_paid > 0
                                 THEN subs[us[2]].amount - usubs[us].amount_paid ELSE 0
                  amount == IF a = <<>> THEN outstanding ELSE a[1]
              IN  IF amount <= 0 \/ amount > outstanding \/ usubs[us].status \in {"fully_paid", "refunded"}
                  THEN resp'.code = "ValueError" /\ txns' = txns
                  ELSE CreatesOne(us, amount, h)]_vars

(* C3, amended: as stated, and initiate_payment also raises ValueError and creates  *)
(* nothing while can_make_payment refuses because a payment of that user            *)
(* subscription is in progress; a created transaction is initiated and turns        *)
(* failed within the call only when the gateway refuses it.                         *)
C3_InitiatePayment ==
    [][\A us \in DOMAIN usubs, a \in AmountInputs, h \in HubtelInitiateOutcomes :
          InitiatePayment(us, a, h) =>
              LET outstanding == IF subs[us[2]].amount - usubs[us].amount_paid > 0
                                 THEN subs[us[2]].amount - usubs[us].amount_paid ELSE 0
                  amount == IF a = <<>> THEN outstanding ELSE a[1]
              IN  IF \/ amount <= 0 \/ amount > outstanding
                     \/ usubs[us].status \in {"fully_paid", "refunded"}
                     \/ InProgress(us, PendingWindowMinutes)
                  THEN resp'.code = "ValueError" /\ txns' = txns
                  ELSE CreatesOne(us, amount, h)]_vars

C3_Witness ==
    /\ req.op = "initiate_payment"
    /\ resp.code = ""
    /\ Len(txns) = 2
    /\ resp.returned = {2}
    /\ txns[2].status = "initiated"
    /\ txns[1].status = "initiated"

(* C4 as stated: while a user subscription has an initiated or pending transaction  *)
(* created less than 5 minutes ago, can_make_payment refuses a new payment.         *)
C4_AsStated ==
    \A us \in DOMAIN usubs :
        (\E k \in DOMAIN txns : /\ txns[k].user_subscription = us
                                /\ txns[k].status \in {"initiated", "pending"}
                                /\ now - txns[k].created_at < PAYMENT_EXPIRY_MINUTES)
            => ~can_make_payment(us).ok

(* C5 as stated: a webhook call from an address outside a non-empty WHITELISTED_IPS *)
(* changes no transaction and no user subscription.                                 *)
C5_AsStated ==
    [][(req'.op = "webhook" /\ WHITELISTED_IPS # {} /\ req'.actor \notin WHITELISTED_IPS)
          => UNCHANGED <<txns, usubs>>]_vars

Entitled(actor) ==
    IF users[actor].role = "member"
    THEN {k \in DOMAIN txns : txns[k].user = actor}
    ELSE {k \in DOMAIN txns : txns[k].organization = users[actor].organization}

(* C7 as stated: list, retrieve, status and verify return and update only           *)
(* transactions the requester is entitled to: their own for a non-executive, those  *)
(* of their own organization for an executive or finance admin.                     *)
C7_AsStated ==
    [][req'.op \in {"list", "retrieve", "status", "verify"} =>
          /\ resp'.returned \subseteq Entitled(req'.actor)
          /\ \A k \in DOMAIN txns : txns'[k] # txns[k] => k \in Entitled(req'.actor)]_vars

----------------------------------------------------------------------------
(* Automatic assignment of subscriptions (post_save signals) *)

MaxRows == 3

UserOrder == <<"u1", "u2", "u3", "u4">>

SubOrder == <<"s1", "s2">>

(* ids are handed out in order *)
NextUserId == UserOrder[CHOOSE i \in 1..Len(UserOrder) :
                  /\ ~users[UserOrder[i]].exists
                  /\ \A j \in 1..(i - 1) : users[UserOrder[j]].exists]

NextSubId == SubOrder[CHOOSE i \in 1..Len(SubOrder) :
                 /\ ~subs[SubOrder[i]].exists
                 /\ \A j \in 1..(i - 1) : subs[SubOrder[j]].exists]

Rows == Cardinality({u \in Users : users[u].exists}) + Cardinality({s \in Subs : subs[s].exists})

(* eligible users that are the whole organization, whatever the role or the activity *)
get_eligible_users_ignoring_is_active(allusers, subscription) ==
    {u \in Users :
        /\ allusers[u].exists
        /\ allusers[u].organization = subscription.organization
        /\ CASE subscription.assignees_category = "EXECUTIVES" ->
                    allusers[u].role \in {"super_admin", "admin", "finance_admin", "attendance_officer", "treasurer"}
             [] subscription.assignees_category = "MEMBERS" -> allusers[u].role = "member"
             [] OTHER -> TRUE}

get_eligible_users(allusers, subscription) ==
    {u \in Users :
        /\ allusers[u].exists
        /\ allusers[u].organization = subscription.organization
        /\ allusers[u].is_active
        /\ CASE subscription.assignees_category = "EXECUTIVES" ->
                    allusers[u].role \in {"super_admin", "admin", "finance_admin", "attendance_officer", "treasurer"}
             [] subscription.assignees_category = "MEMBERS" -> allusers[u].role = "member"
             [] OTHER -> TRUE}

(* the user subscriptions after bulk_create of the missing pairs *)
bulk_create(current, pairs) ==
    [us \in DOMAIN current \cup pairs |-> IF us \in DOMAIN current THEN current[us] ELSE NewUserSubscription]

assign_to_users(allusers, allsubs, s, current) ==
    bulk_create(current, {<<u, s>> : u \in get_eligible_users(allusers, allsubs[s])})

(* a signal that takes every subscription of the organization, active or not *)
assign_subscriptions_to_new_user_ignoring_is_active(allusers, allsubs, u, current) ==
    IF allusers[u].organization # NoOrg
    THEN LET executive_roles == {"super_admin", "admin", "finance_admin", "attendance_officer", "treasurer"}
             is_exec == allusers[u].role \in executive_roles
             org_subscriptions == {s \in Subs : /\ allsubs[s].exists
                                                /\ allsubs[s].organization = allusers[u].organization}
             kept == {s \in org_subscriptions :
                         /\ ~(allsubs[s].assignees_category = "EXECUTIVES" /\ ~is_exec)
                         /\ ~(allsubs[s].assignees_category = "MEMBERS" /\ is_exec)}
         IN  bulk_create(current, {<<u, s>> : s \in kept})
    ELSE current

(* post_save of User with created = True *)
assign_subscriptions_to_new_user(allusers, allsubs, u, current) ==
    IF allusers[u].organization # NoOrg
    THEN LET executive_roles == {"super_admin", "admin", "finance_admin", "attendance_officer", "treasurer"}
             is_exec == allusers[u].role \in executive_roles
             active_subscriptions == {s \in Subs : /\ allsubs[s].exists
                                                   /\ allsubs[s].organization = allusers[u].organization
                                                   /\ allsubs[s].is_active}
             kept == {s \in active_subscriptions :
                         /\ ~(allsubs[s].assignees_category = "EXECUTIVES" /\ ~is_exec)
                         /\ ~(allsubs[s].assignees_category = "MEMBERS" /\ is_exec)}
         IN  bulk_create(current, {<<u, s>> : s \in kept})
    ELSE current

(* Subscription.objects.create(...) followed by its post_save signal *)
CreateSubscription(org, category, active) ==
    /\ \E s \in Subs : ~subs[s].exists
    /\ Rows < MaxRows
    /\ LET s == NextSubId
           allsubs == [subs EXCEPT ![s] = NewSubscription(org, SubscriptionAmount, category, active)]
       IN  /\ subs' = allsubs
           /\ usubs' = assign_to_users(users, allsubs, s, usubs)
           /\ req' = [op |-> "create_subscription", actor |-> s]
           /\ resp' = [code |-> "", message |-> "", returned |-> DOMAIN usubs' \ DOMAIN usubs]
    /\ UNCHANGED <<users, txns, now, otps, generating>>

(* User.objects.create(...) followed by its post_save signal *)
CreateUser(org, role, active) ==
    /\ \E u \in Users : ~users[u].exists
    /\ Rows < MaxRows
    /\ LET u == NextUserId
           allusers == [users EXCEPT ![u] = [NewUser(org, role) EXCEPT !.is_active = active]]
       IN  /\ users' = allusers
           /\ usubs' = assign_subscriptions_to_new_user(allusers, subs, u, usubs)
           /\ req' = [op |-> "create_user", actor |-> u]
           /\ resp' = [code |-> "", message |-> "", returned |-> DOMAIN usubs' \ DOMAIN usubs]
    /\ UNCHANGED <<subs, txns, now, otps, generating>>

EmptyFunction == [x \in {} |-> NewUserSubscription]

InitAssign ==
    /\ users = [u \in Users |-> NoUser]
    /\ subs = [s \in Subs |-> NoSubscription]
    /\ usubs = EmptyFunction
    /\ txns = <<>>
    /\ now = 0
    /\ req = [op |-> "init", actor |-> "-"]
    /\ resp = [code |-> "", message |-> "", returned |-> NoResult]
    /\ otps = <<>>
    /\ generating = {}

NextAssign ==
    \/ \E org \in Orgs, category \in AssigneesCategorizations, active \in BOOLEAN :
           CreateSubscription(org, category, active)
    \/ \E org \in Orgs \cup {NoOrg}, role \in Roles, active \in BOOLEAN :
           CreateUser(org, role, active)

SpecAssign == InitAssign /\ [][NextAssign]_vars

(* the eligibility table of the subscription categories *)
EligibleRoles(category) ==
    CASE category = "EXECUTIVES" -> {"super_admin", "admin", "finance_admin", "attendance_officer", "treasurer"}
      [] category = "MEMBERS" -> {"member"}
      [] OTHER -> Roles

(* C9: creating a subscription creates one not_paid user subscription for every     *)
(* active user of its organization whose role is eligible under its category        *)
(* (BOTH: every role; EXECUTIVES: the five executive roles; MEMBERS: member) and    *)
(* for nobody else, in particular for no user of another organization.              *)
C9_SubscriptionCreated ==
    [][\A org \in Orgs, category \in AssigneesCategorizations, active \in BOOLEAN :
          (req'.op = "create_subscription" /\ CreateSubscription(org, category, active)) =>
              LET s == NextSubId
              IN  /\ \A u \in Users :
                        <<u, s>> \in DOMAIN usubs' <=>
                            /\ users[u].exists
                            /\ users[u].is_active
                            /\ users[u].organization = org
                            /\ users[u].role \in EligibleRoles(category)
                  /\ \A us \in DOMAIN usubs' \ DOMAIN usubs :
                        us[2] = s /\ usubs'[us] = [status |-> "not_paid", amount_paid |-> 0]
                  /\ \A us \in DOMAIN usubs : us \in DOMAIN usubs' /\ usubs'[us] = usubs[us]]_vars

C9_Witness ==
    /\ req.op = "create_subscription"
    /\ Cardinality(resp.returned) = 1
    /\ \E u \in Users : /\ users[u].exists /\ users[u].is_active
                        /\ users[u].organization # subs[req.actor].organization
                        /\ users[u].organization # NoOrg
    /\ \E us \in resp.returned : us \in DOMAIN usubs /\ usubs[us].status = "not_paid"

(* C10: creating a user with an organization creates a not_paid user subscription   *)
(* for each active subscription of that organization the role is eligible for, and  *)
(* none for an inactive subscription or one of another organization; creating a     *)
(* user without an organization creates none.                                       *)
C10_UserCreated ==
    [][\A org \in Orgs \cup {NoOrg}, role \in Roles, active \in BOOLEAN :
          (req'.op = "create_user" /\ CreateUser(org, role, active)) =>
              LET u == NextUserId
              IN  /\ \A s \in Subs :
                        (/\ org # NoOrg
                         /\ subs[s].exists /\ subs[s].is_active
                         /\ subs[s].organization = org
                         /\ role \in EligibleRoles(subs[s].assignees_category))
                            => (<<u, s>> \in DOMAIN usubs' /\ usubs'[<<u, s>>].status = "not_paid")
                  /\ \A s \in Subs :
                        <<u, s>> \in DOMAIN usubs' =>
                            /\ org # NoOrg
                            /\ subs[s].exists /\ subs[s].is_active
                            /\ subs[s].organization = org
                  /\ \A us \in DOMAIN usubs' \ DOMAIN usubs : us[1] = u
                  /\ \A us \in DOMAIN usubs : us \in DOMAIN usubs' /\ usubs'[us] = usubs[us]]_vars

C10_Witness ==
    /\ req.op = "create_user"
    /\ Cardinality(resp.returned) = 1
    /\ \E s \in Subs : subs[s].exists /\ subs[s].organization = users[req.actor].organization /\ ~subs[s].is_active
    /\ \E us \in resp.returned : us \in DOMAIN usubs /\ usubs[us].status = "not_paid"

----------------------------------------------------------------------------
(* SubscriptionViewSet: a ModelViewSet over Subscription.objects.all() *)

SubscriptionQueryset == {s \in Subs : subs[s].exists}

(* the writable fields of SubscriptionSerializer that the model keeps *)
SubscriptionEdits ==
    [assignees_category : AssigneesCategorizations, is_active : BOOLEAN]

(* on_delete = CASCADE from Subscription to UserSubscription to PaymentTransaction *)
CascadeUserSubscriptions(s) ==
    [us \in {x \in DOMAIN usubs : x[2] # s} |-> usubs[us]]

CascadeTransactions(s) ==
    LET kept(t) == t.user_subscription[2] # s
    IN  SelectSeq(txns, kept)

(* GET subscriptions/ *)
SubscriptionList(actor) ==
    /\ actor \in Authenticated
    /\ req' = [op |-> "subscription_list", actor |-> actor]
    /\ resp' = [code |-> "200", message |-> "", returned |-> SubscriptionQueryset]
    /\ UNCHANGED <<users, subs, usubs, txns, now, otps, generating>>

(* GET subscriptions/{id}/ *)
SubscriptionRetrieve(actor, s) ==
    /\ actor \in Authenticated
    /\ req' = [op |-> "subscription_retrieve", actor |-> actor]
    /\ resp' = IF s \in SubscriptionQueryset
               THEN [code |-> "200", message |-> "", returned |-> {s}]
               ELSE [code |-> "404", message |-> "Not found.", returned |-> NoResult]
    /\ UNCHANGED <<users, subs, usubs, txns, now, otps, generating>>

(* PUT / PATCH subscriptions/{id}/ *)
SubscriptionUpdate(actor, s, edit) ==
    /\ actor \in Authenticated
    /\ req' = [op |-> "subscription_update", actor |-> actor]
    /\ IF s \in SubscriptionQueryset
       THEN /\ subs' = [subs EXCEPT ![s].assignees_category = edit.assignees_category,
                                    ![s].is_active = edit.is_active]
            /\ resp' = [code |-> "200", message |-> "", returned |-> {s}]
       ELSE /\ subs' = subs
            /\ resp' = [code |-> "404", message |-> "Not found.", returned |-> NoResult]
    /\ UNCHANGED <<users, usubs, txns, now, otps, generating>>

(* DELETE subscriptions/{id}/ *)
SubscriptionDestroy(actor, s) ==
    /\ actor \in Authenticated
    /\ req' = [op |-> "subscription_destroy", actor |-> actor]
    /\ IF s \in SubscriptionQueryset
       THEN /\ subs' = [subs EXCEPT ![s] = NoSubscription]
            /\ usubs' = CascadeUserSubscriptions(s)
            /\ txns' = CascadeTransactions(s)
            /\ resp' = [code |-> "204", message |-> "", returned |-> NoResult]
       ELSE /\ UNCHANGED <<subs, usubs, txns>>
            /\ resp' = [code |-> "404", message |-> "Not found.", returned |-> NoResult]
    /\ UNCHANGED <<users, now, otps, generating>>

(* POST subscriptions/ *)
SubscriptionCreate(actor, edit) ==
    /\ actor \in Authenticated
    /\ \E s \in Subs : ~subs[s].exists
    /\ req' = [op |-> "subscription_create", actor |-> actor]
    /\ IF ~is_executive(actor)
       THEN /\ UNCHANGED <<subs, usubs>>
            /\ resp' = [code |-> "403", message |-> "Only executive users can create subscriptions", returned |-> NoResult]
       ELSE IF users[actor].organization = NoOrg
       THEN /\ UNCHANGED <<subs, usubs>>
            /\ resp' = [code |-> "500", message |-> "IntegrityError", returned |-> NoResult]
       ELSE LET s == NextSubId
                allsubs == [subs EXCEPT ![s] = NewSubscription(users[actor].organization, SubscriptionAmount,
                                                               edit.assignees_category, edit.is_active)]
            IN  /\ subs' = allsubs
                /\ usubs' = assign_to_users(users, allsubs, s, usubs)
                /\ resp' = [code |-> "201", message |-> "", returned |-> {s}]
    /\ UNCHANGED <<users, txns, now, otps, generating>>

(* GET subscriptions/{id}/assignees/ *)
Assignees(actor, s) ==
    /\ actor \in Authenticated
    /\ req' = [op |-> "assignees", actor |-> actor]
    /\ resp' = IF ~is_executive(actor)
               THEN [code |-> "403", message |-> "Permission denied. Executive access required.", returned |-> NoResult]
               ELSE IF ~(subs[s].exists /\ subs[s].organization = users[actor].organization)
               THEN [code |-> "404", message |-> "Subscription not found", returned |-> NoResult]
               ELSE [code |-> "200", message |-> "", returned |-> {s}]
    /\ UNCHANGED <<users, subs, usubs, txns, now, otps, generating>>

InitSubs ==
    /\ InitPay!1
    /\ InitPay!2
    /\ usubs = assign_to_users(users, subs, "s2", assign_to_users(users, subs, "s1", EmptyFunction))
    /\ txns = <<>>
    /\ now = 0
    /\ req = [op |-> "init", actor |-> "-"]
    /\ resp = [code |-> "", message |-> "", returned |-> NoResult]
    /\ otps = <<>>
    /\ generating = {}

(* the users who write: a member and a treasurer of org1 *)
SubscriptionEditors == {"u1", "u3"}

NextSubs ==
    \/ \E actor \in Users : SubscriptionList(actor)
    \/ \E actor \in Users, s \in Subs : SubscriptionRetrieve(actor, s)
    \/ \E actor \in SubscriptionEditors, s \in Subs, edit \in SubscriptionEdits : SubscriptionUpdate(actor, s, edit)
    \/ \E actor \in SubscriptionEditors, s \in Subs : SubscriptionDestroy(actor, s)
    \/ \E actor \in SubscriptionEditors, edit \in SubscriptionEdits : SubscriptionCreate(actor, edit)
    \/ \E actor \in Users, s \in Subs : Assignees(actor, s)

SpecSubs == InitSubs /\ [][NextSubs]_vars

OwnSubscriptions(actor) ==
    {s \in Subs : subs[s].exists /\ subs[s].organization = users[actor].organization}

(* C6 as stated: every subscription an authenticated user lists, retrieves, updates *)
(* or deletes through SubscriptionViewSet belongs to the user's own organization.   *)
C6_AsStated ==
    [][req'.op \in {"subscription_list", "subscription_retrieve", "subscription_update", "subscription_destroy"} =>
          /\ resp'.returned \subseteq OwnSubscriptions(req'.actor)
          /\ \A s \in Subs : (subs[s].exists /\ subs'[s] # subs[s]) => s \in OwnSubscriptions(req'.actor)]_vars

----------------------------------------------------------------------------
(* AdminUserViewSet: user management by organization admins *)

IsOrganizationAdmin(actor) ==
    users[actor].is_superuser \/ users[actor].role \in {"super_admin", "admin"}

(* a queryset that forgets the organization filter *)
AdminUserViewSet_get_queryset_unscoped(actor) ==
    {u \in Users : users[u].exists}

AdminUserViewSet_get_queryset(actor) ==
    IF users[actor].is_superuser
    THEN {u \in Users : users[u].exists}
    ELSE IF users[actor].organization # NoOrg
    THEN {u \in Users : users[u].exists /\ users[u].organization = users[actor].organization}
    ELSE {}

(* the fields of AdminUserUpdateSerializer that the model keeps *)
AdminUserEdits ==
    [field : {"role"}, value : Roles] \cup [field : {"is_active", "is_approved"}, value : BOOLEAN]

Forbidden == [code |-> "403", message |-> "You do not have permission to perform this action.", returned |-> NoResult]

NotFound == [code |-> "404", message |-> "Not found.", returned |-> NoResult]

(* GET admin/users/ *)
AdminList(actor) ==
    /\ actor \in Authenticated
    /\ req' = [op |-> "admin_list", actor |-> actor]
    /\ resp' = IF ~IsOrganizationAdmin(actor) THEN Forbidden
               ELSE [code |-> "200", message |-> "", returned |-> AdminUserViewSet_get_queryset(actor)]
    /\ UNCHANGED <<users, subs, usubs, txns, now, otps, generating>>

(* GET admin/users/{id}/ *)
AdminRetrieve(actor, target) ==
    /\ actor \in Authenticated
    /\ req' = [op |-> "admin_retrieve", actor |-> actor]
    /\ resp' = IF ~IsOrganizationAdmin(actor) THEN Forbidden
               ELSE IF target \notin AdminUserViewSet_get_queryset(actor) THEN NotFound
               ELSE [code |-> "200", message |-> "", returned |-> {target}]
    /\ UNCHANGED <<users, subs, usubs, txns, now, otps, generating>>

(* PATCH admin/users/{id}/ with one field *)
AdminPartialUpdate(actor, target, edit) ==
    /\ actor \in Authenticated
    /\ req' = [op |-> "admin_partial_update", actor |-> actor]
    /\ IF ~IsOrganizationAdmin(actor)
       THEN users' = users /\ resp' = Forbidden
       ELSE IF target \notin AdminUserViewSet_get_queryset(actor)
       THEN users' = users /\ resp' = NotFound
       ELSE IF edit.field = "role" /\ edit.value = "super_admin" /\ ~is_super_admin(actor)
       THEN /\ users' = users
            /\ resp' = [code |-> "400", message |-> "Only super admins can assign the super_admin role.", returned |-> NoResult]
       ELSE /\ users' = [users EXCEPT ![target] = [@ EXCEPT ![edit.field] = edit.value]]
            /\ resp' = [code |-> "200", message |-> "", returned |-> {target}]
    /\ UNCHANGED <<subs, usubs, txns, now, otps, generating>>

(* POST admin/users/{id}/approve/ *)
AdminApprove(actor, target) ==
    /\ actor \in Authenticated
    /\ req' = [op |-> "admin_approve", actor |-> actor]
    /\ IF ~IsOrganizationAdmin(actor)
       THEN users' = users /\ resp' = Forbidden
       ELSE IF target \notin AdminUserViewSet_get_queryset(actor)
       THEN users' = users /\ resp' = NotFound
       ELSE IF users[target].is_approved
       THEN users' = users /\ resp' = [code |-> "400", message |-> "User is already approved", returned |-> NoResult]
       ELSE /\ users' = [users EXCEPT ![target].is_approved = TRUE]
            /\ resp' = [code |-> "200", message |-> "User approved successfully", returned |-> {target}]
    /\ UNCHANGED <<subs, usubs, txns, now, otps, generating>>

(* POST admin/users/{id}/activate/ *)
AdminActivate(actor, target) ==
    /\ actor \in Authenticated
    /\ req' = [op |-> "admin_activate", actor |-> actor]
    /\ IF ~IsOrganizationAdmin(actor)
       THEN users' = users /\ resp' = Forbidden
       ELSE IF target \notin AdminUserViewSet_get_queryset(actor)
       THEN users' = users /\ resp' = NotFound
       ELSE IF users[target].is_active
       THEN users' = users /\ resp' = [code |-> "400", message |-> "User is already active", returned |-> NoResult]
       ELSE /\ users' = [users EXCEPT ![target].is_active = TRUE]
            /\ resp' = [code |-> "200", message |-> "User activated successfully", returned |-> {target}]
    /\ UNCHANGED <<subs, usubs, txns, now, otps, generating>>

(* POST admin/users/{id}/deactivate/ *)
AdminDeactivate(actor, target) ==
    /\ actor \in Authenticated
    /\ req' = [op |-> "admin_deactivate", actor |-> actor]
    /\ IF ~IsOrganizationAdmin(actor)
       THEN users' = users /\ resp' = Forbidden
       ELSE IF target \notin AdminUserViewSet_get_queryset(actor)
       THEN users' = users /\ resp' = NotFound
       ELSE IF target = actor
       THEN users' = users /\ resp' = [code |-> "400", message |-> "You cannot deactivate your own account", returned |-> NoResult]
       ELSE IF ~users[target].is_active
       THEN users' = users /\ resp' = [code |-> "400", message |-> "User is already inactive", returned |-> NoResult]
       ELSE /\ users' = [users EXCEPT ![target].is_active = FALSE]
            /\ resp' = [code |-> "200", message |-> "User deactivated successfully", returned |-> {target}]
    /\ UNCHANGED <<subs, usubs, txns, now, otps, generating>>

(* an admin and a pending member of org1, an admin without organization, a pending member of org2 *)
InitAdmin ==
    /\ users = [u \in Users |-> IF u = "u1" THEN NewUser("org1", "admin")
                                ELSE IF u = "u2" THEN [NewUser("org1", "member") EXCEPT !.is_approved = FALSE]
                                ELSE IF u = "u3" THEN NewUser(NoOrg, "admin")
                                ELSE [NewUser("org2", "member") EXCEPT !.is_approved = FALSE]]
    /\ subs = [s \in Subs |-> NoSubscription]
    /\ usubs = EmptyFunction
    /\ txns = <<>>
    /\ now = 0
    /\ req = [op |-> "init", actor |-> "-"]
    /\ resp = [code |-> "", message |-> "", returned |-> NoResult]
    /\ otps = <<>>
    /\ generating = {}

NextAdmin ==
    \/ \E actor \in Users : AdminList(actor)
    \/ \E actor \in Users, target \in Users : AdminRetrieve(actor, target)
    \/ \E actor \in Users, target \in Users, edit \in AdminUserEdits : AdminPartialUpdate(actor, target, edit)
    \/ \E actor \in Users, target \in Users : AdminApprove(actor, target)
    \/ \E actor \in Users, target \in Users : AdminActivate(actor, target)
    \/ \E actor \in Users, target \in Users : AdminDeactivate(actor, target)

SpecAdmin == InitAdmin /\ [][NextAdmin]_vars

AdminOps == {"admin_list", "admin_retrieve", "admin_partial_update", "admin_approve", "admin_activate", "admin_deactivate"}

OwnUsers(actor) ==
    {u \in Users : /\ users[u].exists
                   /\ users[actor].organization # NoOrg
                   /\ users[u].organization = users[actor].organization}

(* C8: every user that a request of a non-superuser to AdminUserViewSet (list,      *)
(* retrieve, update, approve, activate, deactivate) returns or changes belongs to   *)
(* the requester's own organization; a requester without organization reaches no   *)
(* user.                                                                            *)
C8_AdminScopedToOrganization ==
    [][(req'.op \in AdminOps /\ ~users[req'.actor].is_superuser) =>
          /\ resp'.returned \subseteq OwnUsers(req'.actor)
          /\ \A u \in Users : users'[u] # users[u] => u \in OwnUsers(req'.actor)]_vars

C8_Witness ==
    /\ req = [op |-> "admin_deactivate", actor |-> "u1"]
    /\ resp.code = "200"
    /\ resp.returned = {"u2"}
    /\ ~users["u2"].is_active
    /\ users["u4"] = [NewUser("org2", "member") EXCEPT !.is_approved = FALSE]

----------------------------------------------------------------------------
(* Users who get their organization after they were created, and the two      *)
(* catch-up assignment paths (service function and management command)        *)

MaxOrgUsers == 2

(* Organization.objects.first() *)
DefaultOrganization == "org1"

OrganizationCodes == Orgs \cup {"0000"}

(* the eligibility test shared by the user-side assignment paths *)
UserSideEligible(allusers, allsubs, u) ==
    LET executive_roles == {"super_admin", "admin", "finance_admin", "attendance_officer", "treasurer"}
        is_exec == allusers[u].role \in executive_roles
        active_subscriptions == {s \in Subs : /\ allsubs[s].exists
                                              /\ allsubs[s].organization = allusers[u].organization
                                              /\ allsubs[s].is_active}
    IN  {s \in active_subscriptions :
            /\ ~(allsubs[s].assignees_category = "EXECUTIVES" /\ ~is_exec)
            /\ ~(allsubs[s].assignees_category = "MEMBERS" /\ is_exec)}

(* a service that hands every active subscription of the organization to the user *)
assign_subscriptions_to_user_any_category(allusers, allsubs, u, current) ==
    IF allusers[u].organization = NoOrg
    THEN current
    ELSE bulk_create(current, {<<u, s>> : s \in {x \in Subs : /\ allsubs[x].exists
                                                             /\ allsubs[x].organization = allusers[u].organization
                                                             /\ allsubs[x].is_active}})

assign_subscriptions_to_user(allusers, allsubs, u, current) ==
    IF allusers[u].organization = NoOrg
    THEN current
    ELSE bulk_create(current, {<<u, s>> : s \in UserSideEligible(allusers, allsubs, u)})

(* manage.py assign_missing_subscriptions [--organization=code] [--dry-run]; org_code is "" without the option *)
assign_missing_subscriptions(org_code, dry_run) ==
    LET selected == {u \in Users : /\ users[u].exists
                                   /\ users[u].organization # NoOrg
                                   /\ users[u].is_active
                                   /\ (org_code # "" => users[u].organization = org_code)}
        missing == {us \in selected \X Subs : us[2] \in UserSideEligible(users, subs, us[1]) /\ us \notin DOMAIN usubs}
    IN  [created |-> missing, usubs |-> IF dry_run THEN usubs ELSE bulk_create(usubs, missing)]

(* user_signed_up receiver: gives the default organization, saves with update_fields *)
populate_profile(allusers, u) ==
    IF allusers[u].organization = NoOrg
    THEN [allusers EXCEPT ![u].organization = DefaultOrganization]
    ELSE allusers

(* allauth sign-up: the user row is created without organization (post_save, created), *)
(* then user_signed_up runs populate_profile                                          *)
SignUp ==
    /\ \E u \in Users : ~users[u].exists
    /\ Rows < MaxRows
    /\ LET u == NextUserId
           created == [users EXCEPT ![u] = NewUser(NoOrg, "member")]
       IN  /\ users' = populate_profile(created, u)
           /\ usubs' = assign_subscriptions_to_new_user(created, subs, u, usubs)
           /\ req' = [op |-> "sign_up", actor |-> u]
           /\ resp' = [code |-> "201", message |-> "", returned |-> DOMAIN usubs' \ DOMAIN usubs]
    /\ UNCHANGED <<subs, txns, now, otps, generating>>

(* POST auth/join-organization/ *)
JoinOrganization(actor, organization_code) ==
    /\ actor \in Authenticated
    /\ req' = [op |-> "join_organization", actor |-> actor]
    /\ IF users[actor].organization # NoOrg
       THEN /\ users' = users
            /\ resp' = [code |-> "400", message |-> "You already belong to an organization", returned |-> NoResult]
       ELSE IF organization_code \notin Orgs
       THEN /\ users' = users
            /\ resp' = [code |-> "404", message |-> "Invalid organization code", returned |-> NoResult]
       ELSE /\ users' = [users EXCEPT ![actor].organization = organization_code]
            /\ resp' = [code |-> "200", message |-> "Successfully joined organization", returned |-> NoResult]
    /\ UNCHANGED <<subs, usubs, txns, now, otps, generating>>

(* POST organizations/{id}/add_member/: the handler takes no pk argument, so the *)
(* detail route raises TypeError before its body runs                            *)
AddMember(actor, org, target) ==
    /\ actor \in Authenticated
    /\ users[target].exists
    /\ req' = [op |-> "add_member", actor |-> actor]
    /\ resp' = [code |-> "500", message |-> "TypeError", returned |-> NoResult]
    /\ UNCHANGED <<users, subs, usubs, txns, now, otps, generating>>

(* assign_subscriptions_to_user(user) called for an existing user *)
AssignSubscriptionsToUser(u) ==
    /\ users[u].exists
    /\ usubs' = assign_subscriptions_to_user(users, subs, u, usubs)
    /\ req' = [op |-> "assign_subscriptions_to_user", actor |-> u]
    /\ resp' = [code |-> "", message |-> "", returned |-> DOMAIN usubs' \ DOMAIN usubs]
    /\ UNCHANGED <<users, subs, txns, now, otps, generating>>

AssignMissingSubscriptions(org_code, dry_run) ==
    /\ \E r \in {assign_missing_subscriptions(org_code, dry_run)} :
           /\ usubs' = r.usubs
           /\ resp' = [code |-> IF dry_run THEN "DRY RUN COMPLETE" ELSE "COMPLETE", message |-> "", returned |-> r.created]
    /\ req' = [op |-> "assign_missing_subscriptions", actor |-> org_code]
    /\ UNCHANGED <<users, subs, txns, now, otps, generating>>

(* active users and active subscriptions only; inactive rows are the matter of SpecAssign *)
NextOrg ==
    \/ \E org \in Orgs, category \in AssigneesCategorizations : CreateSubscription(org, category, TRUE)
    \/ \E org \in Orgs \cup {NoOrg}, role \in Roles :
           Cardinality({u \in Users : users[u].exists}) < MaxOrgUsers /\ CreateUser(org, role, TRUE)
    \/ Cardinality({u \in Users : users[u].exists}) < MaxOrgUsers /\ SignUp
    \/ \E actor \in Users, code \in OrganizationCodes : JoinOrganization(actor, code)
    \/ \E actor \in Users, org \in Orgs, target \in Users : AddMember(actor, org, target)
    \/ \E u \in Users : AssignSubscriptionsToUser(u)
    \/ \E org_code \in Orgs \cup {""}, dry_run \in BOOLEAN : AssignMissingSubscriptions(org_code, dry_run)

SpecOrg == InitAssign /\ [][NextOrg]_vars

ExecutiveRoles == {"super_admin", "admin", "finance_admin", "attendance_officer", "treasurer"}

(* C11: no step of an assignment path (subscription-created signal, user-created   *)
(* signal, assign_subscriptions_to_user, assign_missing_subscriptions) creates a    *)
(* user subscription of a member for an EXECUTIVES subscription or of a user with   *)
(* one of the five executive roles for a MEMBERS subscription, and each path gives  *)
(* the users with an executive role it handles the EXECUTIVES subscriptions.        *)
C11_NoCrossCategoryAssignment ==
    [][/\ \A us \in DOMAIN usubs' \ DOMAIN usubs :
             /\ ~(users'[us[1]].role = "member" /\ subs'[us[2]].assignees_category = "EXECUTIVES")
             /\ ~(users'[us[1]].role \in ExecutiveRoles /\ subs'[us[2]].assignees_category = "MEMBERS")
       /\ (req'.op = "create_subscription" /\ subs'[req'.actor].assignees_category = "EXECUTIVES") =>
             \A u \in Users :
                 (/\ users[u].exists /\ users[u].is_active
                  /\ users[u].organization = subs'[req'.actor].organization
                  /\ users[u].role \in ExecutiveRoles) => <<u, req'.actor>> \in DOMAIN usubs'
       /\ (req'.op \in {"create_user", "assign_subscriptions_to_user"}
              /\ users'[req'.actor].role \in ExecutiveRoles /\ users'[req'.actor].organization # NoOrg) =>
             \A s \in Subs :
                 (/\ subs[s].exists /\ subs[s].is_active
                  /\ subs[s].organization = users'[req'.actor].organization
                  /\ subs[s].assignees_category = "EXECUTIVES") => <<req'.actor, s>> \in DOMAIN usubs'
       /\ (req'.op = "assign_missing_subscriptions" /\ resp'.code = "COMPLETE") =>
             \A u \in Users, s \in Subs :
                 (/\ users[u].exists /\ users[u].is_active /\ users[u].role \in ExecutiveRoles
                  /\ users[u].organization # NoOrg
                  /\ (req'.actor # "" => users[u].organization = req'.actor)
                  /\ subs[s].exists /\ subs[s].is_active
                  /\ subs[s].organization = users[u].organization
                  /\ subs[s].assignees_category = "EXECUTIVES") => <<u, s>> \in DOMAIN usubs']_vars

C11_Witness ==
    /\ req.op = "assign_missing_subscriptions"
    /\ resp.code = "COMPLETE"
    /\ \E us \in resp.returned :
           /\ us \in DOMAIN usubs
           /\ users[us[1]].role = "treasurer"
           /\ subs[us[2]].assignees_category = "EXECUTIVES"
    /\ \E u \in Users, s \in Subs :
           /\ users[u].exists /\ users[u].role = "member" /\ subs[s].exists
           /\ users[u].organization = subs[s].organization
           /\ <<u, s>> \notin DOMAIN usubs

(* C12 as stated: a user who had no organization and gets one (join_organization,   *)
(* add_member, populate_profile) holds, once the request is served, a user          *)
(* subscription for every active subscription of that organization the role is      *)
(* eligible for.                                                                    *)
C12_AsStated ==
    [][\A u \in Users :
          (users[u].organization = NoOrg /\ users'[u].exists /\ users'[u].organization # NoOrg) =>
              \A s \in Subs :
                  (/\ subs[s].exists /\ subs[s].is_active
                   /\ subs[s].organization = users'[u].organization
                   /\ users'[u].role \in EligibleRoles(subs[s].assignees_category))
                      => <<u, s>> \in DOMAIN usubs']_vars

----------------------------------------------------------------------------
(* IsApproved, on a view that has it as its only permission class *)

AnonymousUser == "anonymous"

(* a permission that forgets is_active *)
IsApproved_has_permission_ignoring_is_active(request_user) ==
    IF request_user = AnonymousUser
    THEN FALSE
    ELSE users[request_user].is_approved

IsApproved_has_permission(request_user) ==
    IF request_user = AnonymousUser
    THEN FALSE
    ELSE users[request_user].is_active /\ users[request_user].is_approved

(* GET on MockView with request.user set as the test does *)
MockViewGet(request_user) ==
    /\ request_user \in {u \in Users : users[u].exists} \cup {AnonymousUser}
    /\ req' = [op |-> "mock_view", actor |-> request_user]
    /\ resp' = IF IsApproved_has_permission(request_user)
               THEN [code |-> "200", message |-> "", returned |-> NoResult]
               ELSE Forbidden
    /\ UNCHANGED <<users, subs, usubs, txns, now, otps, generating>>

NextApproval ==
    \/ NextAdmin
    \/ \E request_user \in Users \cup {AnonymousUser} : MockViewGet(request_user)

SpecApproval == InitAdmin /\ [][NextApproval]_vars

(* C13: a request to a view guarded by IsApproved is allowed exactly when its user  *)
(* is authenticated, active and approved, in whatever order approval and            *)
(* activation were set or withdrawn before.                                         *)
C13_IsApproved ==
    [][req'.op = "mock_view" =>
          ((resp'.code = "200") <=>
              (/\ req'.actor # AnonymousUser
               /\ users[req'.actor].exists
               /\ users[req'.actor].is_active
               /\ users[req'.actor].is_approved))]_vars

C13_Witness ==
    /\ req = [op |-> "mock_view", actor |-> "u2"]
    /\ resp.code = "200"
    /\ users["u2"].is_approved
    /\ ~users["u4"].is_approved

----------------------------------------------------------------------------
(* Role changes through AdminUserViewSet, with a super admin in one organization *)

RoleInputs == {"member", "admin", "super_admin"}

(* PUT admin/users/{id}/ with the three fields the model keeps *)
AdminUserPutData == [role : RoleInputs, is_active : {TRUE}, is_approved : {TRUE}]

SuperAdminOnlyMessage == "Only super admins can assign the super_admin role."

(* PUT admin/users/{id}/: ModelViewSet.update with AdminUserUpdateSerializer *)
AdminUpdate(actor, target, data) ==
    /\ actor \in Authenticated
    /\ req' = [op |-> "admin_update", actor |-> actor]
    /\ IF ~IsOrganizationAdmin(actor)
       THEN users' = users /\ resp' = Forbidden
       ELSE IF target \notin AdminUserViewSet_get_queryset(actor)
       THEN users' = users /\ resp' = NotFound
       ELSE IF data.role = "super_admin" /\ ~is_super_admin(actor)
       THEN /\ users' = users
            /\ resp' = [code |-> "400", message |-> SuperAdminOnlyMessage, returned |-> NoResult]
       ELSE /\ users' = [users EXCEPT ![target].role = data.role,
                                      ![target].is_active = data.is_active,
                                      ![target].is_approved = data.is_approved]
            /\ resp' = [code |-> "200", message |-> "", returned |-> {target}]
    /\ UNCHANGED <<subs, usubs, txns, now, otps, generating>>

(* an admin and a member of org1, a super admin and a member of org2 *)
InitRoles ==
    /\ users = [u \in Users |-> IF u = "u1" THEN NewUser("org1", "admin")
                                ELSE IF u = "u2" THEN NewUser("org1", "member")
                                ELSE IF u = "u3" THEN NewUser("org2", "super_admin")
                                ELSE NewUser("org2", "member")]
    /\ subs = [s \in Subs |-> NoSubscription]
    /\ usubs = EmptyFunction
    /\ txns = <<>>
    /\ now = 0
    /\ req = [op |-> "init", actor |-> "-"]
    /\ resp = [code |-> "", message |-> "", returned |-> NoResult]
    /\ otps = <<>>
    /\ generating = {}

NextRoles ==
    \/ \E actor \in Users, target \in Users, role \in RoleInputs :
           AdminPartialUpdate(actor, target, [field |-> "role", value |-> role])
    \/ \E actor \in Users, target \in Users, data \in AdminUserPutData : AdminUpdate(actor, target, data)

SpecRoles == InitRoles /\ [][NextRoles]_vars

AsksForSuperAdmin(actor, target) ==
    \/ AdminPartialUpdate(actor, target, [field |-> "role", value |-> "super_admin"])
    \/ AdminUpdate(actor, target, [role |-> "super_admin", is_active |-> TRUE, is_approved |-> TRUE])

----------------------------------------------------------------------------
(* One-time passwords: resend, e-mail verification, password reset *)

(* rows of the otps table, in-flight generate_otp calls, web workers, the clock *)
MaxOtps == 2
MaxWorkers == 2
MaxOtpTime == 10
MaxOtpUsers == 2

(* timedelta(minutes=10) *)
OTP_EXPIRY_MINUTES == 10

(* random.choices(string.digits, k=6): two of the codes the generator can draw *)
Codes == {"111111", "222222"}

OtpPurposes == {"activation", "password_reset"}

Workers == 1..MaxWorkers

(* a user's id stands for the e-mail address of that user; u4 is nobody's address *)
Emails == {"u1", "u2", "u4"}

(* OTP.is_valid *)
is_valid(otp, t) == ~otp.is_used /\ otp.expires_at > t

(* generate_otp, first statement: filter(target, purpose, is_used=False).update(is_used=True) *)
generate_otp_invalidate(rows, target, purpose) ==
    [k \in DOMAIN rows |->
        IF rows[k].target = target /\ rows[k].purpose = purpose /\ ~rows[k].is_used
        THEN [rows[k] EXCEPT !.is_used = TRUE]
        ELSE rows[k]]

(* generate_otp, second statement: OTP.objects.create(...) with the code and expiry drawn at entry *)
generate_otp_create(rows, call) ==
    Append(rows, [target |-> call.target, code |-> call.code, purpose |-> call.purpose,
                  is_used |-> FALSE, expires_at |-> call.expires_at])

(* the unused rows the verify_otp filter selects; rows are kept in created_at order *)
UnusedMatching(rows, target, code, purpose) ==
    {k \in DOMAIN rows : /\ rows[k].target = target
                         /\ rows[k].purpose = purpose
                         /\ rows[k].code = code
                         /\ ~rows[k].is_used}

Latest(S) == CHOOSE k \in S : \A j \in S : j <= k

(* verify_otp: otp is the accepted row, 0 for None *)
verify_otp(rows, target, code, purpose, t) ==
    LET matching == UnusedMatching(rows, target, code, purpose)
    IN  IF matching = {}
        THEN [otp |-> 0, rows |-> rows]
        ELSE IF is_valid(rows[Latest(matching)], t)
        THEN [otp |-> Latest(matching), rows |-> [rows EXCEPT ![Latest(matching)].is_used = TRUE]]
        ELSE [otp |-> 0, rows |-> rows]

(* social sign-up: CustomSocialAccountAdapter.save_user leaves the new user inactive *)
SocialSignUp ==
    /\ \E u \in Users : ~users[u].exists
    /\ Rows < MaxRows
    /\ LET u == NextUserId
           created == [users EXCEPT ![u] = NewUser(NoOrg, "member")]
       IN  /\ users' = [populate_profile(created, u) EXCEPT ![u].is_active = FALSE]
           /\ usubs' = assign_subscriptions_to_new_user(created, subs, u, usubs)
           /\ req' = [op |-> "social_sign_up", actor |-> u]
           /\ resp' = [code |-> "201", message |-> "", returned |-> DOMAIN usubs' \ DOMAIN usubs]
    /\ UNCHANGED <<subs, txns, now, otps, generating>>

(* a worker enters generate_otp for a validated e-mail: draws the code and the expiry, *)
(* and runs the invalidating update                                                   *)
GenerateOtpInvalidate(worker, op, email, purpose, code) ==
    /\ \A call \in generating : call.worker # worker
    /\ Len(otps) + Cardinality(generating) < MaxOtps
    /\ users[email].exists
    /\ otps' = generate_otp_invalidate(otps, email, purpose)
    /\ generating' = generating \cup {[worker |-> worker, op |-> op, target |-> email, purpose |-> purpose,
                                        code |-> code, expires_at |-> now + OTP_EXPIRY_MINUTES]}
    /\ req' = [op |-> op, actor |-> email]
    /\ resp' = [code |-> "", message |-> "", returned |-> NoResult]
    /\ UNCHANGED <<users, subs, usubs, txns, now>>

(* the worker's generate_otp creates its row and the view answers *)
GenerateOtpCreate(call) ==
    /\ call \in generating
    /\ otps' = generate_otp_create(otps, call)
    /\ generating' = generating \ {call}
    /\ req' = [op |-> call.op, actor |-> call.target]
    /\ resp' = [code |-> "200",
                message |-> IF call.op = "resend_otp" THEN "OTP sent successfully."
                            ELSE "Password reset OTP sent to your email.",
                returned |-> NoResult]
    /\ UNCHANGED <<users, subs, usubs, txns, now>>

(* POST auth/resend-otp/ *)
ResendOtp(worker, email, code) ==
    IF users[email].exists
    THEN GenerateOtpInvalidate(worker, "resend_otp", email, "activation", code)
    ELSE /\ req' = [op |-> "resend_otp", actor |-> email]
         /\ resp' = [code |-> "400", message |-> "User with this email does not exist.", returned |-> NoResult]
         /\ UNCHANGED <<users, subs, usubs, txns, now, otps, generating>>

(* POST auth/password-reset/ *)
RequestPasswordReset(worker, email, code) ==
    IF users[email].exists
    THEN GenerateOtpInvalidate(worker, "request_password_reset", email, "password_reset", code)
    ELSE /\ req' = [op |-> "request_password_reset", actor |-> email]
         /\ resp' = [code |-> "400", message |-> "User with this email does not exist.", returned |-> NoResult]
         /\ UNCHANGED <<users, subs, usubs, txns, now, otps, generating>>

(* POST auth/verify-email/ *)
VerifyEmail(email, code) ==
    /\ req' = [op |-> "verify_email", actor |-> email]
    /\ \E r \in {verify_otp(otps, email, code, "activation", now)} :
        /\ otps' = r.rows
        /\ IF r.otp = 0
           THEN /\ users' = users
                /\ resp' = [code |-> "400", message |-> "Invalid or expired OTP.", returned |-> NoResult]
           ELSE IF ~users[email].exists
           THEN /\ users' = users
                /\ resp' = [code |-> "400", message |-> "User with this email does not exist.", returned |-> NoResult]
           ELSE IF ~users[email].is_active
           THEN /\ users' = [users EXCEPT ![email].is_active = TRUE, ![email].email_verified = TRUE]
                /\ resp' = [code |-> "200", message |-> "Email verified successfully. You can now login.",
                            returned |-> r.otp]
           ELSE /\ users' = users
                /\ resp' = [code |-> "200", message |-> "Email already verified.", returned |-> r.otp]
    /\ UNCHANGED <<subs, usubs, txns, now, generating>>

(* POST auth/password-reset/confirm/ : the password itself is not part of the state *)
ResetPasswordConfirm(email, code) ==
    /\ req' = [op |-> "reset_password_confirm", actor |-> email]
    /\ \E r \in {verify_otp(otps, email, code, "password_reset", now)} :
        /\ otps' = r.rows
        /\ IF r.otp = 0
           THEN resp' = [code |-> "400", message |-> "Invalid or expired OTP.", returned |-> NoResult]
           ELSE IF ~users[email].exists
           THEN resp' = [code |-> "400", message |-> "User error.", returned |-> NoResult]
           ELSE resp' = [code |-> "200", message |-> "Password reset successfully. You can now login.",
                         returned |-> r.otp]
    /\ UNCHANGED <<users, subs, usubs, txns, now, generating>>

(* the lifetime of an OTP passes *)
OtpLifetimePasses ==
    /\ now + OTP_EXPIRY_MINUTES <= MaxOtpTime
    /\ now' = now + OTP_EXPIRY_MINUTES
    /\ req' = [op |-> "tick", actor |-> "-"]
    /\ resp' = [code |-> "", message |-> "", returned |-> NoResult]
    /\ UNCHANGED <<users, subs, usubs, txns, otps, generating>>

NextOtp ==
    \/ Rows < MaxOtpUsers /\ SignUp
    \/ Rows < MaxOtpUsers /\ SocialSignUp
    \/ \E worker \in Workers, email \in Emails, code \in Codes : ResendOtp(worker, email, code)
    \/ \E worker \in Workers, email \in Emails, code \in Codes : RequestPasswordReset(worker, email, code)
    \/ \E call \in generating : GenerateOtpCreate(call)
    \/ \E email \in Emails, code \in Codes : VerifyEmail(email, code)
    \/ \E email \in Emails, code \in Codes : ResetPasswordConfirm(email, code)
    \/ OtpLifetimePasses

SpecOtp == InitAssign /\ [][NextOtp]_vars

(* C15: after verify_email accepts an activation OTP of an existing user, that user is *)
(* active and has email_verified set, however the user was registered                 *)
C15_AsStated ==
    (req.op = "verify_email" /\ resp.code = "200")
        => (users[req.actor].is_active /\ users[req.actor].email_verified)

(* the unused rows of one target and purpose *)
Unused(target, purpose) ==
    {k \in DOMAIN otps : otps[k].target = target /\ otps[k].purpose = purpose /\ ~otps[k].is_used}

(* C16: in every reachable state there is at most one unused OTP per target and purpose *)
C16_AsStated ==
    \A target \in Emails, purpose \in OtpPurposes : Cardinality(Unused(target, purpose)) <= 1

----------------------------------------------------------------------------
(* Final transaction statuses *)

(* C17: a transaction that is success, failed or refunded keeps that status through every *)
(* later webhook callback, status poll, verify call and admin action                      *)
C17_AsStated ==
    [][\A k \in DOMAIN txns :
          txns[k].status \in {"success", "failed", "refunded"} => txns'[k].status = txns[k].status]_vars

====
